---- MODULE Spec2Model ----
(***************************************************************************)
(* Model of the two InsightCM exporters:                                   *)
(*   src/trends2datapoints.py  (bundle pipeline: zip -> time series)       *)
(*   src/tdms2sequences.py     (waveform pipeline: TDMS -> sequences)      *)
(*                                                                         *)
(* Conventions.  Text that the code edits character by character (names)   *)
(* is a sequence of one-character strings.  A JSON object / Python dict is  *)
(* a function whose DOMAIN is the set of keys present.  Python's None is    *)
(* the string "None".  The remote catalog (CDP) is part of the state; each  *)
(* remote call is one step and may raise.  An exception nobody catches      *)
(* ends the process (pc = "aborted").                                       *)
(***************************************************************************)
EXTENDS Integers, Sequences, FiniteSets, TLC

VARIABLES
    \* ---- trends2datapoints.py ----
    tr_nfiles,        \* len(files) in main
    tr_save,          \* args.save_files
    tr_fi,            \* index of the path the for-loop of main is at (0 = none yet)
    tr_pc,            \* position of the process
    tr_cur,           \* the two JSON documents read from the zip file of the current path
    tr_dir,           \* extraction directory of the current path: none/exists/removed
    tr_timeseries,    \* result of process_timeseries_metadata
    tr_datapoints,    \* result of process_datapoints_excel_file
    tr_cdp_asset_id,  \* local of process_datapoints
    tr_stack,         \* call stack of insert_cdp_datapoints (last = innermost)
    tr_calls,         \* remote calls issued for the current path, in call order
    tr_lookups,       \* asset queries issued in this run, per UID
    tr_catalog,       \* time series held by the remote catalog
    tr_exc,           \* the exception that ended the process, or "none"
    \* ---- find_cdp_timeseries applied to an arbitrary query result ----
    q_name, q_res, q_found, q_pc,
    \* ---- tdms2sequences.py ----
    td_files,         \* the TDMS files at the paths of main's list, in order
    td_only_static,   \* args.only_static
    td_run,           \* how many times main was started on these paths
    td_fi,            \* index of the path the for-loop of main is at
    td_ci,            \* index of the channel the loop of process_tdms_file is at
    td_pc,            \* position of the process
    td_local,         \* locals of the channel being processed
    td_calls,         \* remote calls issued in this run, in call order
    td_past,          \* the remote calls of the earlier runs
    td_catalog,       \* time series held by the remote catalog
    td_outcome,       \* per path handled in this run: "Failed" or "Completed"
    td_exc            \* the exception that ended the process, or "none"

trVars == <<tr_nfiles, tr_save, tr_fi, tr_pc, tr_cur, tr_dir, tr_timeseries,
            tr_datapoints, tr_cdp_asset_id, tr_stack, tr_calls, tr_lookups,
            tr_catalog, tr_exc>>
qVars == <<q_name, q_res, q_found, q_pc>>
tdVars == <<td_files, td_only_static, td_run, td_fi, td_ci, td_pc, td_local, td_calls,
            td_past, td_catalog, td_outcome, td_exc>>
vars == <<trVars, qVars, tdVars>>

----------------------------------------------------------------------------
(* Bounds of the model *)

MaxPoints == 3      \* short point lists have 0..MaxPoints points
MaxBatches == 2     \* long point lists span up to MaxBatches full batches
MaxFiles == 2       \* paths handed to one run of main
MaxRows == 2        \* rows of a short spreadsheet
MaxCandidates == 2  \* records in one query response
MaxChannels == 2    \* channels of one TDMS file
MaxSamples == 3     \* samples of one waveform channel
MaxRuns == 2        \* times main is started on the same paths

(* Program constants *)

DefaultLimit == 1000    \* insert_cdp_datapoints(..., limit=1000)
NanosPerMilli == 1000000  \* 10 ** 6 in process_datapoints_excel_file

----------------------------------------------------------------------------
(* Python helpers *)

None == "None"
EmptyDict == [k \in {} |-> None]

(* The variables of a program that is not the one running *)

TrIdle ==
    /\ tr_nfiles = 0 /\ tr_save = FALSE /\ tr_fi = 0 /\ tr_pc = "idle"
    /\ tr_cur = EmptyDict /\ tr_dir = "none"
    /\ tr_timeseries = [ok |-> FALSE, why |-> ""] /\ tr_datapoints = <<>>
    /\ tr_cdp_asset_id = [ok |-> FALSE] /\ tr_stack = <<>> /\ tr_calls = <<>>
    /\ tr_lookups = EmptyDict /\ tr_catalog = <<>> /\ tr_exc = "none"

QIdle == q_name = <<>> /\ q_res = <<>> /\ q_found = [ok |-> FALSE] /\ q_pc = "idle"

TdIdle ==
    /\ td_files = <<>> /\ td_only_static = FALSE /\ td_run = 0 /\ td_fi = 0 /\ td_ci = 0
    /\ td_pc = "idle" /\ td_local = EmptyDict /\ td_calls = <<>> /\ td_past = <<>>
    /\ td_catalog = EmptyDict /\ td_outcome = <<>> /\ td_exc = "none"

Min(a, b) == IF a < b THEN a ELSE b

\* s[:n]
Take(s, n) == SubSeq(s, 1, Min(n, Len(s)))

\* s[n:]
Drop(s, n) == SubSeq(s, Min(n, Len(s)) + 1, Len(s))

\* d.get(k) for a key whose values are strings
Get(d, k) == IF k \in DOMAIN d THEN d[k] ELSE None

\* str.replace(" ", "_")
ReplaceSpaces(s) == [i \in 1..Len(s) |-> IF s[i] = " " THEN "_" ELSE s[i]]

\* prefix test of the catalog's name search
IsPrefix(p, s) == Len(p) <= Len(s) /\ SubSeq(s, 1, Len(p)) = p

\* all sequences over S of length 0..n
RECURSIVE SeqsUpTo(_, _)
SeqsUpTo(S, n) ==
    IF n = 0 THEN {<<>>}
    ELSE LET shorter == SeqsUpTo(S, n - 1)
         IN shorter \cup {Append(s, x) : s \in {t \in shorter : Len(t) = n - 1}, x \in S}

----------------------------------------------------------------------------
(* insert_cdp_datapoints: the recursion as a call stack.                   *)
(* A frame is one activation: its arguments and where it stands.           *)

Frame(datapoints, limit) ==
    [datapoints |-> datapoints, limit |-> limit, at |-> "enter"]

\* Datapoint(timestamp=ts, value=value)
Datapoint(p) == [timestamp |-> p[1], value |-> p[2]]

\* objs = [Datapoint(...) for ts, value in datapoints[:limit]]
Objs(datapoints, limit) ==
    LET head == Take(datapoints, limit)
    IN [i \in 1..Len(head) |-> Datapoint(head[i])]

\* the argument of the recursive call; the call passes no limit
RecursiveCall(datapoints, limit) == Frame(Drop(datapoints, limit), DefaultLimit)

\* A remote call as the catalog saw it; ok = FALSE when the call raised.
PostDatapoints(name, objs, ok) ==
    [op |-> "post_datapoints", name |-> name, objs |-> objs, ok |-> ok]

Top == tr_stack[Len(tr_stack)]
Pop == SubSeq(tr_stack, 1, Len(tr_stack) - 1)

\* line 160-161: if len(datapoints) > limit: recurse on the rest first
InsertEnter ==
    /\ tr_pc = "insert"
    /\ tr_stack # <<>>
    /\ Top.at = "enter"
    /\ LET waiting == [Top EXCEPT !.at = "post"]
       IN tr_stack' =
            IF Len(Top.datapoints) > Top.limit
            THEN Append(Append(Pop, waiting), RecursiveCall(Top.datapoints, Top.limit))
            ELSE Append(Pop, waiting)
    /\ UNCHANGED <<tr_nfiles, tr_save, tr_fi, tr_pc, tr_cur, tr_dir, tr_timeseries,
                   tr_datapoints, tr_cdp_asset_id, tr_calls, tr_lookups, tr_catalog,
                   tr_exc, qVars, tdVars>>

\* line 162-164: post the first 'limit' points and return; the post may raise
InsertPost ==
    /\ tr_pc = "insert"
    /\ tr_stack # <<>>
    /\ Top.at = "post"
    /\ \E ok \in BOOLEAN :
         /\ tr_calls' = Append(tr_calls,
                PostDatapoints(tr_timeseries.name, Objs(Top.datapoints, Top.limit), ok))
         /\ IF ok
            THEN /\ tr_stack' = Pop
                 /\ UNCHANGED <<tr_pc, tr_exc>>
            ELSE /\ tr_stack' = <<>>
                 /\ tr_pc' = "aborted"
                 /\ tr_exc' = "remote"
    /\ UNCHANGED <<tr_nfiles, tr_save, tr_fi, tr_cur, tr_dir, tr_timeseries,
                   tr_datapoints, tr_cdp_asset_id, tr_lookups, tr_catalog, qVars, tdVars>>

----------------------------------------------------------------------------
(* The content of one trend zip file, as the parsers see it *)

PumpOne == <<"P", " ", "1">>       \* an asset display name with a space

\* Assets.json: an array whose first element describes the owning asset.
\* "Id" may be present and null (None).
Metric(id, name) == [Id |-> id, Name |-> name]
AssetsDocs ==
    { <<>>,
      <<[FullName |-> PumpOne]>>,
      <<[Id |-> "u1"]>>,
      <<[Id |-> "u1", FullName |-> PumpOne]>>,
      <<[Id |-> None, FullName |-> PumpOne]>>,
      <<[Id |-> "u1", FullName |-> PumpOne,
         Properties |-> [Name |-> <<"v">>], Metrics |-> <<>>]>>,
      <<[Id |-> "u1", FullName |-> PumpOne, Metrics |-> <<Metric("t2", <<"w">>)>>]>>,
      <<[Id |-> "u1", FullName |-> PumpOne,
         Properties |-> [Name |-> <<"v">>, Type |-> "Feature"],
         Metrics |-> << Metric("t2", <<"w">>),
                        [Id |-> "t1", Name |-> <<"v">>, Unit |-> <<"g">>],
                        Metric("t1", <<"w">>) >>]>> }

\* MetaData.json: an array whose first element may carry Instructions
Instruction(props) == [Props |-> props]
MetaDocs ==
    { <<>>,
      <<EmptyDict>>,
      <<[Instructions |-> <<>>]>>,
      <<[Instructions |-> <<EmptyDict>>]>>,
      <<[Instructions |-> <<Instruction(EmptyDict)>>]>>,
      <<[Instructions |-> <<Instruction([TrendPointId |-> ""])>>]>>,
      <<[Instructions |-> <<Instruction([TrendPointId |-> "t1"])>>]>> }

\* a member of the archive: absent, present but not JSON, or a document
JsonMembers(docs) ==
    { [present |-> FALSE], [present |-> TRUE, valid |-> FALSE] }
    \cup { [present |-> TRUE, valid |-> TRUE, doc |-> d] : d \in docs }

\* chartdata.xlsx after the two header rows: (timestamp in ns, cell text)
GoodCell == [num |-> TRUE, v |-> 7]      \* float(value_str) succeeds
BadCell == [num |-> FALSE]               \* float(value_str) raises ValueError
Row(i, cell) == [ts |-> i * NanosPerMilli + i, cell |-> cell]
Rows(cells) == [i \in 1..Len(cells) |-> Row(i, cells[i])]
Charts ==
    { [readable |-> FALSE] }
    \cup { [readable |-> TRUE, rows |-> Rows(cells)] :
             cells \in SeqsUpTo({GoodCell, BadCell}, MaxRows) }
    \cup { [readable |-> TRUE, rows |-> Rows([i \in 1..(DefaultLimit + 1) |-> GoodCell])] }

----------------------------------------------------------------------------
(* process_timeseries_metadata *)

Falsy(v) == v \in {None, ""}

\* dict.update
Update(d, e) ==
    [k \in DOMAIN d \cup DOMAIN e |-> IF k \in DOMAIN e THEN e[k] ELSE d[k]]

\* d.get(k) is truthy, for a key whose values are text
HasText(d, k) == k \in DOMAIN d /\ d[k] # <<>>

\* lines 63-65
TrendId(meta) ==
    IF meta # <<>> /\ "Instructions" \in DOMAIN meta[1] /\ meta[1]["Instructions"] # <<>>
    THEN LET first == meta[1]["Instructions"][1]
             props == IF "Props" \in DOMAIN first THEN first["Props"] ELSE EmptyDict
         IN Get(props, "TrendPointId")
    ELSE None

\* line 73
AssetInfoMissing(assets) ==
    assets = <<>> \/ "FullName" \notin DOMAIN assets[1] \/ "Id" \notin DOMAIN assets[1]

\* line 80
HasMetrics(asset) == "Metrics" \in DOMAIN asset /\ asset["Metrics"] # <<>>

\* line 81
Trends(asset, trend_id) ==
    SelectSeq(asset["Metrics"], LAMBDA i : Get(i, "Id") = trend_id)

\* lines 78-85
Properties(asset, trend_id) ==
    LET own == IF "Properties" \in DOMAIN asset THEN asset["Properties"] ELSE EmptyDict
    IN IF HasMetrics(asset) THEN Update(own, Trends(asset, trend_id)[1]) ELSE own

\* lines 87-92
TimeseriesName(asset_name, properties) ==
    LET withName == IF HasText(properties, "Name")
                    THEN asset_name \o <<" ">> \o properties["Name"]
                    ELSE asset_name
        withUnit == IF HasText(properties, "Unit")
                    THEN withName \o <<" ", "(">> \o properties["Unit"] \o <<")">>
                    ELSE withName
    IN ReplaceSpaces(withUnit)

\* return None, after the logger.error of the branch taken (why)
NoTimeData(why) == [ok |-> FALSE, why |-> why]

TimeData(name, trendId, assetId, assetName, metadata) ==
    [ok |-> TRUE, name |-> name, trendId |-> trendId, assetId |-> assetId,
     assetName |-> assetName, metadata |-> metadata]

\* json.load raises: on the metadata document when both paths are there, on the
\* assets document only once a trend id was found
MetadataRaises(a, m) ==
    /\ a.present /\ m.present
    /\ \/ ~m.valid
       \/ ~Falsy(TrendId(m.doc)) /\ ~a.valid

\* the value returned when nothing raises
process_timeseries_metadata(a, m) ==
    IF ~a.present \/ ~m.present THEN NoTimeData("Missing paths")
    ELSE IF Falsy(TrendId(m.doc)) THEN NoTimeData("Can't find TrendPointId")
    ELSE IF AssetInfoMissing(a.doc) THEN NoTimeData("Can't find require info")
    ELSE IF HasMetrics(a.doc[1]) /\ Trends(a.doc[1], TrendId(m.doc)) = <<>>
         THEN NoTimeData("Unknown timeseries/trend")
    ELSE LET asset == a.doc[1]
             properties == Properties(asset, TrendId(m.doc))
         IN TimeData(TimeseriesName(asset["FullName"], properties), TrendId(m.doc),
                     asset["Id"], asset["FullName"], properties)

----------------------------------------------------------------------------
(* process_datapoints_excel_file *)

\* lines 102-111: rows whose value does not parse are dropped
Timestamp(row) == row.ts \div NanosPerMilli

process_datapoints_excel_file(chart) ==
    LET kept == SelectSeq(chart.rows, LAMBDA row : row.cell.num)
    IN [i \in 1..Len(kept) |-> <<Timestamp(kept[i]), kept[i].cell.v>>]

----------------------------------------------------------------------------
(* The remote catalog and the two lookups *)

\* assets the catalog holds: two share a UID, one has no UID in its metadata
CatalogAssets ==
    { [id |-> 11, metadata |-> [UID |-> "u1"]],
      [id |-> 12, metadata |-> [UID |-> "u1"]],
      [id |-> 13, metadata |-> [UID |-> "u2"]],
      [id |-> 14, metadata |-> EmptyDict] }

\* what get_assets may answer: candidates, not filtered exactly
AssetResponses == SeqsUpTo(CatalogAssets, MaxCandidates)

Uids == {"u1", None}

NoId == [ok |-> FALSE]
SomeId(id) == [ok |-> TRUE, id |-> id]

\* trends2datapoints.py lines 121-127, on the answer res of get_assets
find_cdp_asset(res, asset_uid) ==
    LET match == SelectSeq(res, LAMBDA i : Get(i.metadata, "UID") = asset_uid)
    IN IF match # <<>> THEN SomeId(match[1].id) ELSE NoId

\* a catalog that answers every name search with nothing
EmptyQuery(catalog, name) == <<>>

\* get_time_series(prefix=name): the records whose name starts with name
PrefixQuery(catalog, name) == SelectSeq(catalog, LAMBDA r : IsPrefix(name, r.name))

NotFound == [ok |-> FALSE]
Found(record) == [ok |-> TRUE, found |-> record]

\* a lookup that trusts the prefix query and takes its first candidate
find_first_candidate(res, name) ==
    IF res # <<>> THEN Found(res[1]) ELSE NotFound

\* lines 133-139 (61-67 in tdms2sequences.py), on the answer res of get_time_series
find_cdp_timeseries(res, name) ==
    LET match == SelectSeq(res, LAMBDA i : i.name = name)
    IN IF match # <<>> THEN Found(match[1]) ELSE NotFound

\* trends2datapoints.py lines 144-154: the TimeSeries object posted
TimeSeries(name, metadata, asset_name, asset_id) ==
    [name |-> name,
     is_string |-> FALSE,
     asset_id |-> asset_id,
     unit |-> IF HasText(metadata, "Unit") THEN metadata["Unit"] ELSE <<>>,
     description |-> Get(metadata, "Type"),
     metadata |-> IF asset_name # <<>>
                  THEN Update(metadata, [assetName |-> asset_name])
                  ELSE metadata]

GetAssets(uid, ok) == [op |-> "get_assets", uid |-> uid, ok |-> ok]
GetTimeSeries(prefix, ok) == [op |-> "get_time_series", prefix |-> prefix, ok |-> ok]
PostTimeSeries(series, ok) == [op |-> "post_time_series", series |-> series, ok |-> ok]

----------------------------------------------------------------------------
(* trends2datapoints.py: main, process_inputs, process_datapoints *)

\* line 221: the for-loop takes the next path
TrNextFile ==
    /\ tr_pc = "loop"
    /\ tr_fi < tr_nfiles
    /\ tr_fi' = tr_fi + 1
    /\ tr_pc' = "pi_mkdir"
    /\ tr_dir' = "none"
    /\ tr_timeseries' = NoTimeData("")
    /\ tr_datapoints' = <<>>
    /\ tr_cdp_asset_id' = NoId
    /\ tr_calls' = <<>>
    /\ UNCHANGED <<tr_nfiles, tr_save, tr_cur, tr_stack, tr_lookups, tr_catalog, tr_exc,
                   qVars, tdVars>>

\* the for-loop is exhausted
TrFinish ==
    /\ tr_pc = "loop"
    /\ tr_fi = tr_nfiles
    /\ tr_pc' = "done"
    /\ UNCHANGED <<tr_nfiles, tr_save, tr_fi, tr_cur, tr_dir, tr_timeseries, tr_datapoints,
                   tr_cdp_asset_id, tr_stack, tr_calls, tr_lookups, tr_catalog, tr_exc,
                   qVars, tdVars>>

\* lines 187-193: os.makedirs(real_path) or TemporaryDirectory(...)
PI_MakeDir ==
    /\ tr_pc = "pi_mkdir"
    /\ tr_dir' = "exists"
    /\ tr_pc' = "pi_extract"
    /\ UNCHANGED <<tr_nfiles, tr_save, tr_fi, tr_cur, tr_timeseries, tr_datapoints,
                   tr_cdp_asset_id, tr_stack, tr_calls, tr_lookups, tr_catalog, tr_exc,
                   qVars, tdVars>>

\* lines 177-179: extract the zip file at the path, whatever it holds, and match
\* the paths of assets.json and metadata.json among its members
PI_Extract ==
    /\ tr_pc = "pi_extract"
    /\ \E zip \in BOOLEAN :
         IF zip
         THEN /\ \E a \in JsonMembers(AssetsDocs), m \in JsonMembers(MetaDocs) :
                   tr_cur' = [assets |-> a, metadata |-> m]
              /\ tr_pc' = "pi_metadata"
              /\ UNCHANGED tr_exc
         ELSE /\ tr_exc' = "BadZipFile"
              /\ tr_pc' = "pi_leave"
              /\ UNCHANGED tr_cur
    /\ UNCHANGED <<tr_nfiles, tr_save, tr_fi, tr_dir, tr_timeseries, tr_datapoints,
                   tr_cdp_asset_id, tr_stack, tr_calls, tr_lookups, tr_catalog, qVars,
                   tdVars>>

\* line 181: process_timeseries_metadata reads the two documents and returns
PI_Metadata ==
    /\ tr_pc = "pi_metadata"
    /\ IF MetadataRaises(tr_cur.assets, tr_cur.metadata)
       THEN /\ tr_exc' = "JSONDecodeError"
            /\ tr_pc' = "pi_leave"
            /\ UNCHANGED tr_timeseries
       ELSE /\ tr_timeseries' =
                 process_timeseries_metadata(tr_cur.assets, tr_cur.metadata)
            /\ tr_pc' = "pi_chart"
            /\ UNCHANGED tr_exc
    /\ tr_cur' = EmptyDict
    /\ UNCHANGED <<tr_nfiles, tr_save, tr_fi, tr_dir, tr_datapoints,
                   tr_cdp_asset_id, tr_stack, tr_calls, tr_lookups, tr_catalog, qVars,
                   tdVars>>

\* lines 182-183: parse chartdata.xlsx, whatever it holds (a missing member is
\* open(None), which raises), and return from process
PI_Chart ==
    /\ tr_pc = "pi_chart"
    /\ \E c \in Charts :
         IF c.readable
         THEN /\ tr_datapoints' = process_datapoints_excel_file(c)
              /\ UNCHANGED tr_exc
         ELSE /\ tr_exc' = "chartdata"
              /\ UNCHANGED tr_datapoints
    /\ tr_pc' = "pi_leave"
    /\ UNCHANGED <<tr_nfiles, tr_save, tr_fi, tr_cur, tr_dir, tr_timeseries,
                   tr_cdp_asset_id, tr_stack, tr_calls, tr_lookups, tr_catalog, qVars,
                   tdVars>>

\* a cleanup that runs on return only, as without the with-statement
DirOnLeaveReturnOnly(save_files, dir, exc) ==
    IF save_files \/ exc # "none" THEN dir ELSE "removed"

\* the directory when process_inputs is left: the with-statement of line 193
\* removes the temporary one on return and on exception; line 191 leaves
\* real_path alone
DirOnLeave(save_files, dir, exc) == IF save_files THEN dir ELSE "removed"

\* a test that asks for a trend record only
HasTimeseries(timeseries, datapoints) == timeseries.ok

\* line 223: if timeseries and datapoints
HasBoth(timeseries, datapoints) == timeseries.ok /\ datapoints # <<>>

\* process_inputs is left, by return or by the exception; lines 222-223 decide
\* where main goes
PI_Leave ==
    /\ tr_pc = "pi_leave"
    /\ tr_dir' = DirOnLeave(tr_save, tr_dir, tr_exc)
    /\ tr_pc' = IF tr_exc # "none" THEN "aborted"
                ELSE IF HasBoth(tr_timeseries, tr_datapoints) THEN "pd_asset"
                ELSE "loop"
    /\ UNCHANGED <<tr_nfiles, tr_save, tr_fi, tr_cur, tr_timeseries, tr_datapoints,
                   tr_cdp_asset_id, tr_stack, tr_calls, tr_lookups, tr_catalog, tr_exc,
                   qVars, tdVars>>

\* line 199 and 120-127: find_cdp_asset queries the catalog, every time
PD_FindAsset ==
    /\ tr_pc = "pd_asset"
    /\ tr_lookups' = [tr_lookups EXCEPT ![tr_timeseries.assetId] = @ + 1]
    /\ \E ok \in BOOLEAN :
         /\ tr_calls' = Append(tr_calls, GetAssets(tr_timeseries.assetId, ok))
         /\ IF ok
            THEN /\ \E res \in AssetResponses :
                      tr_cdp_asset_id' = find_cdp_asset(res, tr_timeseries.assetId)
                 /\ tr_pc' = "pd_find"
                 /\ UNCHANGED tr_exc
            ELSE /\ tr_pc' = "aborted"
                 /\ tr_exc' = "remote"
                 /\ UNCHANGED tr_cdp_asset_id
    /\ UNCHANGED <<tr_nfiles, tr_save, tr_fi, tr_cur, tr_dir, tr_timeseries, tr_datapoints,
                   tr_stack, tr_catalog, qVars, tdVars>>

\* line 201 and 132-139
PD_FindTimeseries ==
    /\ tr_pc = "pd_find"
    /\ \E ok \in BOOLEAN :
         /\ tr_calls' = Append(tr_calls, GetTimeSeries(tr_timeseries.name, ok))
         /\ IF ok
            THEN /\ tr_pc' =
                      IF find_cdp_timeseries(PrefixQuery(tr_catalog, tr_timeseries.name),
                                             tr_timeseries.name).ok
                      THEN "pd_insert" ELSE "pd_update"
                 /\ UNCHANGED tr_exc
            ELSE /\ tr_pc' = "aborted"
                 /\ tr_exc' = "remote"
    /\ UNCHANGED <<tr_nfiles, tr_save, tr_fi, tr_cur, tr_dir, tr_timeseries, tr_datapoints,
                   tr_cdp_asset_id, tr_stack, tr_lookups, tr_catalog, qVars, tdVars>>

\* line 202 and 144-155
PD_UpdateTimeseries ==
    /\ tr_pc = "pd_update"
    /\ LET series == TimeSeries(tr_timeseries.name, tr_timeseries.metadata,
                                tr_timeseries.assetName, tr_cdp_asset_id)
       IN \E ok \in BOOLEAN :
            /\ tr_calls' = Append(tr_calls, PostTimeSeries(series, ok))
            /\ IF ok
               THEN /\ tr_catalog' = Append(tr_catalog, series)
                    /\ tr_pc' = "pd_insert"
                    /\ UNCHANGED tr_exc
               ELSE /\ tr_pc' = "aborted"
                    /\ tr_exc' = "remote"
                    /\ UNCHANGED tr_catalog
    /\ UNCHANGED <<tr_nfiles, tr_save, tr_fi, tr_cur, tr_dir, tr_timeseries, tr_datapoints,
                   tr_cdp_asset_id, tr_stack, tr_lookups, qVars, tdVars>>

\* line 204: insert_cdp_datapoints(client, name, datapoints), limit defaulted
PD_Insert ==
    /\ tr_pc = "pd_insert"
    /\ tr_stack' = <<Frame(tr_datapoints, DefaultLimit)>>
    /\ tr_pc' = "insert"
    /\ UNCHANGED <<tr_nfiles, tr_save, tr_fi, tr_cur, tr_dir, tr_timeseries, tr_datapoints,
                   tr_cdp_asset_id, tr_calls, tr_lookups, tr_catalog, tr_exc, qVars, tdVars>>

\* line 205: insert_cdp_datapoints has returned; back to the for-loop
PD_Done ==
    /\ tr_pc = "insert"
    /\ tr_stack = <<>>
    /\ tr_fi > 0
    /\ tr_pc' = "loop"
    /\ UNCHANGED <<tr_nfiles, tr_save, tr_fi, tr_cur, tr_dir, tr_timeseries, tr_datapoints,
                   tr_cdp_asset_id, tr_stack, tr_calls, tr_lookups, tr_catalog, tr_exc,
                   qVars, tdVars>>

\* time series the catalog may hold before the run
TsRecord(name) == [name |-> name]
InitialCatalogs ==
    { <<>>,
      <<TsRecord(<<"P", "_", "1", "_", "v">>)>>,
      <<TsRecord(<<"P", "_", "1", "_", "v">>), TsRecord(<<"P", "_", "1">>)>> }

InitTrends ==
    /\ tr_nfiles \in 0..MaxFiles
    /\ tr_save \in BOOLEAN
    /\ tr_fi = 0
    /\ tr_pc = "loop"
    /\ tr_cur = EmptyDict
    /\ tr_dir = "none"
    /\ tr_timeseries = NoTimeData("")
    /\ tr_datapoints = <<>>
    /\ tr_cdp_asset_id = NoId
    /\ tr_stack = <<>>
    /\ tr_calls = <<>>
    /\ tr_lookups = [u \in Uids |-> 0]
    /\ tr_catalog \in InitialCatalogs
    /\ tr_exc = "none"
    /\ q_name = <<>> /\ q_res = <<>> /\ q_found = NotFound /\ q_pc = "idle"
    /\ TdIdle

NextTrends ==
    \/ TrNextFile \/ TrFinish
    \/ PI_MakeDir \/ PI_Extract \/ PI_Metadata \/ PI_Chart \/ PI_Leave
    \/ PD_FindAsset \/ PD_FindTimeseries \/ PD_UpdateTimeseries \/ PD_Insert
    \/ InsertEnter \/ InsertPost
    \/ PD_Done

SpecTrends == InitTrends /\ [][NextTrends]_vars

\* the process is inside process_inputs
InProcessInputs ==
    tr_pc \in {"pi_mkdir", "pi_extract", "pi_metadata", "pi_chart", "pi_leave"}

\* C9: the extraction directory exists while the bundle is extracted and parsed;
\* once process_inputs is left, by return or by an exception, it is gone when
\* retention was not requested and still there when it was.
C9_ExtractionDirScoped ==
    /\ tr_pc \in {"pi_extract", "pi_metadata", "pi_chart", "pi_leave"} => tr_dir = "exists"
    /\ (tr_fi > 0 /\ ~InProcessInputs) =>
           tr_dir = IF tr_save THEN "exists" ELSE "removed"

\* C9 witness: a parse failure ended the run and the temporary directory is gone
C9_Witness ==
    /\ tr_pc = "aborted" /\ tr_exc \in {"BadZipFile", "JSONDecodeError", "chartdata"}
    /\ ~tr_save /\ tr_dir = "removed"

\* the three rejections of process_timeseries_metadata the claim names, told from
\* the two documents the bundle holds
NoTrendId(b) == Falsy(TrendId(b.metadata.doc))
AssetLacksInfo(b) == AssetInfoMissing(b.assets.doc)
NoMatchingMetric(b) ==
    /\ b.assets.doc # <<>>
    /\ HasMetrics(b.assets.doc[1])
    /\ Trends(b.assets.doc[1], TrendId(b.metadata.doc)) = <<>>
RejectedBundle(b) ==
    /\ b.assets.present /\ b.assets.valid
    /\ b.metadata.present /\ b.metadata.valid
    /\ NoTrendId(b) \/ AssetLacksInfo(b) \/ NoMatchingMetric(b)

RejectionLogs ==
    {"Can't find TrendPointId", "Can't find require info", "Unknown timeseries/trend"}

\* once its documents are read, a bundle of the three kinds is turned down with
\* the log entry of its kind
RejectedIsLogged ==
    (tr_pc = "pi_metadata" /\ RejectedBundle(tr_cur)) =>
        (tr_pc' = "pi_chart" /\ ~tr_timeseries'.ok /\ tr_timeseries'.why \in RejectionLogs)

\* C10: a bundle that has no trend id, lacks Id/FullName or has no matching
\* metric is rejected with a log entry, and when process_inputs is left with it no
\* remote call was or is issued for it and main goes on to the next path.
C10_RejectedBundleSkipped ==
    /\ [][RejectedIsLogged]_vars
    /\ [][(tr_pc = "pi_leave" /\ ~tr_timeseries.ok /\ tr_timeseries.why \in RejectionLogs)
            => (tr_calls' = <<>> /\ tr_pc' = "loop")]_vars

\* C6: no failure to open or parse an artifact ends the run
C6_ParseFailureNeverStopsRun ==
    ~(tr_pc = "aborted" /\ tr_exc \in {"BadZipFile", "JSONDecodeError", "chartdata"})

\* C3: within one run no UID is looked up in the catalog more than once
C3_OneLookupPerUid == \A u \in Uids : tr_lookups[u] <= 1

\* C11: an accepted bundle whose asset document carries no usable Id (null or
\* empty) is never given a remote asset id, whatever the catalog answers
C11_NoUidNoAsset ==
    (tr_timeseries.ok /\ Falsy(tr_timeseries.assetId)) => ~tr_cdp_asset_id.ok

\* C19: the remote calls made for one zip file exist only when a trend record
\* and at least one datapoint were extracted from it, and they come in the
\* order asset lookup, time-series lookup, at most one creation, datapoints
C19_CallsOnlyWithBothInOrder ==
    /\ tr_calls # <<>> => (tr_timeseries.ok /\ tr_datapoints # <<>>)
    /\ \A i \in 1..Len(tr_calls) :
         CASE i = 1 -> tr_calls[i].op = "get_assets"
           [] i = 2 -> tr_calls[i].op = "get_time_series"
           [] i = 3 -> tr_calls[i].op \in {"post_time_series", "post_datapoints"}
           [] OTHER -> tr_calls[i].op = "post_datapoints"

\* a bundle was sent in four calls: the two lookups, the creation, the points
C19_Witness ==
    /\ tr_pc = "loop" /\ tr_fi > 0 /\ Len(tr_calls) = 4
    /\ tr_calls[3].op = "post_time_series" /\ tr_calls[4].op = "post_datapoints"
    /\ tr_calls[4].ok

----------------------------------------------------------------------------
(* insert_cdp_datapoints called on its own, with any list and any limit    *)

\* n points in timestamp order: (timestamp i, value i)
Points(n) == [i \in 1..n |-> <<i, i>>]

PointCounts ==
    (0..MaxPoints)
    \cup {b * DefaultLimit + r : b \in 1..MaxBatches, r \in 0..MaxPoints}
    \cup {MaxBatches * DefaultLimit + DefaultLimit \div 2}

Limits == (1..MaxPoints) \cup {DefaultLimit}

ProbeName == <<"P", "_", "1">>

InitInsert ==
    /\ \E n \in PointCounts, limit \in Limits :
         /\ tr_datapoints = Points(n)
         /\ tr_stack = <<Frame(Points(n), limit)>>
         /\ tr_cur = [limit |-> limit]
    /\ tr_pc = "insert"
    /\ tr_timeseries = [ok |-> TRUE, name |-> ProbeName]
    /\ tr_nfiles = 0 /\ tr_save = FALSE /\ tr_fi = 0
    /\ tr_dir = "none"
    /\ tr_cdp_asset_id = [ok |-> FALSE] /\ tr_calls = <<>>
    /\ tr_lookups = EmptyDict /\ tr_catalog = <<>> /\ tr_exc = "none"
    /\ QIdle
    /\ TdIdle

NextInsert == InsertEnter \/ InsertPost

SpecInsert == InitInsert /\ [][NextInsert]_vars

\* the outermost call has returned normally
InsertReturned == tr_pc = "insert" /\ tr_stack = <<>>

\* the submitted batches, joined in the order the remote calls were made
RECURSIVE Submitted(_)
Submitted(calls) ==
    IF calls = <<>> THEN <<>>
    ELSE IF Head(calls).op = "post_datapoints" /\ Head(calls).ok
         THEN Head(calls).objs \o Submitted(Tail(calls))
         ELSE Submitted(Tail(calls))

AllObjs(datapoints) == Objs(datapoints, Len(datapoints))

\* C1: with the default batch size, once insert_cdp_datapoints has returned, the
\* submitted batches joined in call order are the input point list.
C1_BatchesInOriginalOrder ==
    (InsertReturned /\ tr_cur.limit = DefaultLimit)
        => Submitted(tr_calls) = AllObjs(tr_datapoints)

\* C2: for every limit >= 1 the caller passes, once insert_cdp_datapoints has
\* returned every point was submitted exactly once and no submission holds more
\* than limit points.
C2_EveryPointOnceWithinLimit ==
    InsertReturned =>
        /\ Len(Submitted(tr_calls)) = Len(tr_datapoints)
        /\ \A i \in 1..Len(tr_datapoints) :
              \E j \in 1..Len(Submitted(tr_calls)) :
                  Submitted(tr_calls)[j] = Datapoint(tr_datapoints[i])
        /\ \A c \in 1..Len(tr_calls) :
              tr_calls[c].op = "post_datapoints" => Len(tr_calls[c].objs) <= tr_cur.limit

----------------------------------------------------------------------------
(* find_cdp_timeseries applied to any answer of the prefix query *)

QueryNames == { <<"P", "_", "1">>, <<"P", "_", "1", "0">>, <<"P">>, <<"Q">> }

\* candidate records: the catalog's to_json() form, name and id
Candidates == { [name |-> n, id |-> i] : n \in QueryNames, i \in {21, 22} }

InitFind ==
    /\ q_name \in QueryNames
    /\ q_res \in SeqsUpTo(Candidates, MaxCandidates)
    /\ q_found = NotFound
    /\ q_pc = "call"
    /\ TrIdle
    /\ TdIdle

FindApply ==
    /\ q_pc = "call"
    /\ q_found' = find_cdp_timeseries(q_res, q_name)
    /\ q_pc' = "returned"
    /\ UNCHANGED <<q_name, q_res, trVars, tdVars>>

NextFind == FindApply

SpecFind == InitFind /\ [][NextFind]_vars

\* C5: what find_cdp_timeseries returns has exactly the queried name, and it
\* returns nothing exactly when no candidate has that name.
C5_ExactNameOnly ==
    q_pc = "returned" =>
        /\ q_found.ok => q_found.found.name = q_name
        /\ q_found.ok <=> (\E i \in 1..Len(q_res) : q_res[i].name = q_name)

\* C5 witness: the query "P_1" was answered with a stored "P_10" only
C5_Witness ==
    /\ q_pc = "returned"
    /\ q_name = <<"P", "_", "1">>
    /\ q_res # <<>>
    /\ \A i \in 1..Len(q_res) : q_res[i].name = <<"P", "_", "1", "0">>
    /\ ~q_found.ok

----------------------------------------------------------------------------
(* The content of a TDMS file, as nptdms presents it *)

\* a property value read as a number: float(v) succeeds with v or raises
\* ValueError; truthy is bool(v)
NumberText == [truthy |-> TRUE, num |-> TRUE, v |-> 7]    \* "7.0"
WordText == [truthy |-> TRUE, num |-> FALSE]              \* "n/a"
ZeroNumber == [truthy |-> FALSE, num |-> TRUE, v |-> 0]   \* 0.0

\* a datetime, in microseconds since the epoch
Stamp == [us |-> 1500]

Chan(group, channel, data, props) ==
    [group |-> group, channel |-> channel, data |-> data, props |-> props]

PumpTen == <<"P", " ", "1", "0">>

\* channels as they usually are: two static values of one asset, one waveform
StaticOne ==
    Chan("Static", "a", <<>>,
         [NI_CM_AssetName |-> PumpOne, NI_CM_AssetNodeId |-> "u1", unit_string |-> <<"g">>,
          NI_CM_Reason |-> "Periodic", Value |-> NumberText, DateTime |-> Stamp])
StaticTwo ==
    Chan("Static", "b", <<>>,
         [NI_CM_AssetName |-> PumpOne, unit_string |-> <<>>,
          Value |-> NumberText, DateTime |-> Stamp])
Waveform(n) ==
    Chan("Wave", "x", [i \in 1..n |-> 4 + i],
         [NI_CM_AssetName |-> PumpOne, NI_CM_AssetNodeId |-> "u1", name |-> <<"x", " ", "y">>,
          DateTime |-> Stamp])
UsualChannels == {StaticOne, StaticTwo, Waveform(2)}

\* channels that are out of the ordinary in one respect
OddChannels ==
    { Waveform(n) : n \in (1..MaxSamples) \ {2} }
    \cup
    { Chan("Wave", "z", <<0, 0>>, [NI_CM_AssetName |-> PumpOne, name |-> <<"z">>]),
      Chan("Wave", "x", <<5>>, [NI_CM_AssetNodeId |-> "u1", name |-> <<"x">>]),
      Chan("Wave", "x", <<5>>, [NI_CM_AssetName |-> PumpOne, NI_CM_AssetNodeId |-> "u1"]),
      Chan("Wave", "x", <<5, 0>>, [NI_CM_AssetName |-> PumpOne, name |-> <<"x">>,
                                   NI_CM_AssetNodeId |-> ""]),
      Chan("Static", "c", <<>>, [NI_CM_AssetName |-> PumpOne, NI_CM_AssetNodeId |-> "u1",
                                 Value |-> WordText, DateTime |-> Stamp]),
      Chan("Static", "c", <<>>, [NI_CM_AssetNodeId |-> "u1",
                                 Value |-> NumberText, DateTime |-> Stamp]),
      Chan("Static", "c", <<>>, [NI_CM_AssetName |-> PumpOne, NI_CM_AssetNodeId |-> "u1",
                                 Value |-> ZeroNumber, DateTime |-> Stamp]),
      Chan("Static", "c", <<>>, [NI_CM_AssetName |-> PumpTen, NI_CM_AssetNodeId |-> "u2",
                                 Value |-> NumberText, DateTime |-> Stamp]),
      Chan("Static", "c", <<>>, [NI_CM_AssetName |-> PumpOne, DateTime |-> Stamp]),
      Chan("Static", "c", <<>>, [NI_CM_AssetName |-> PumpOne, Value |-> NumberText]) }

\* the channel lists of a file: at most one channel of a list is odd
ChannelLists ==
    { s \in SeqsUpTo(UsualChannels \cup OddChannels, MaxChannels) :
        Cardinality({i \in 1..Len(s) : s[i] \in OddChannels}) <= 1 }

\* what is at a path of main's list
Unopenable == [kind |-> "unopenable"]     \* open(path, "rb") raises OSError
Unparsable == [kind |-> "unparsable"]     \* TdmsFile(fp) raises
Tdms(properties, channels) ==
    [kind |-> "tdms", properties |-> properties, channels |-> channels]

\* a file whose root object carries what its one static channel lacks
RootedFile ==
    Tdms([NI_CM_AssetName |-> PumpOne, DateTime |-> Stamp],
         <<Chan("Static", "r", <<>>, [Value |-> NumberText])>>)

TdmsFiles == {Unopenable, Unparsable} \cup {Tdms(EmptyDict, s) : s \in ChannelLists}
Neighbours == {Unopenable, Unparsable, RootedFile}

\* the lists of paths main may be given: one file, alone or followed by another
PathLists == {<<f>> : f \in TdmsFiles} \cup {<<f, g>> : f \in TdmsFiles, g \in Neighbours}

----------------------------------------------------------------------------
(* tdms2sequences.py: the functions of one channel *)

\* metadata in which every channel is given a DateTime
MetadataStamped(file, channel) ==
    Update(Update(file.properties, channel.props),
           [Group |-> channel.group, Channel |-> channel.channel, DateTime |-> Stamp])

\* lines 136-139: the root properties, overlaid with the channel's own
Metadata(file, channel) ==
    Update(Update(file.properties, channel.props),
           [Group |-> channel.group, Channel |-> channel.channel])

\* a test that finds no channel to have data
NeverData(channel) == TRUE

\* line 141: not channel.has_data or not channel.data.any()
NoData(channel) == channel.data = <<>> \/ \A i \in 1..Len(channel.data) : channel.data[i] = 0

\* a static branch that the only-static option turns off instead of on
IsStaticUnlessOnlyStatic(channel, metadata) ==
    /\ ~td_only_static
    /\ "Value" \in DOMAIN channel.props /\ channel.props["Value"].truthy
    /\ "DateTime" \in DOMAIN metadata

\* line 142: the condition of the static branch, when channel.property returns
IsStatic(channel, metadata) ==
    /\ "Value" \in DOMAIN channel.props /\ channel.props["Value"].truthy
    /\ "DateTime" \in DOMAIN metadata

\* str(v) of a date
DateStr(d) == [str |-> d.us]

\* metadata.update({k: str(v) ... if isinstance(v, date)})
StringifyDates(metadata) ==
    [k \in DOMAIN metadata |-> IF k = "DateTime" THEN DateStr(metadata[k]) ELSE metadata[k]]

\* line 87: int(metadata["DateTime"].timestamp() * 1000)
Millis(d) == d.us \div 1000

\* not metadata.get(k), for a key whose values are text
NoText(metadata, k) == k \notin DOMAIN metadata \/ metadata[k] = <<>>

\* lines 87-99 of process_static_data: what it returns early with, or the
\* name, timestamp and value it goes on with
StaticSkipped(why) == [ok |-> FALSE, why |-> why]

\* a static point filed under a name that includes the channel's
StaticPointNamedByChannel(metadata) ==
    IF ~metadata["Value"].num THEN StaticSkipped("Failed to convert float")
    ELSE IF NoText(metadata, "NI_CM_AssetName") THEN StaticSkipped("without asset name")
    ELSE [ok |-> TRUE,
          name |-> ReplaceSpaces(metadata["NI_CM_AssetName"] \o <<" ", metadata["Channel"]>>),
          timestamp |-> Millis(metadata["DateTime"]),
          value |-> metadata["Value"].v]

StaticPoint(metadata) ==
    IF ~metadata["Value"].num THEN StaticSkipped("Failed to convert float")
    ELSE IF NoText(metadata, "NI_CM_AssetName") THEN StaticSkipped("without asset name")
    ELSE [ok |-> TRUE,
          name |-> ReplaceSpaces(metadata["NI_CM_AssetName"]),
          timestamp |-> Millis(metadata["DateTime"]),
          value |-> metadata["Value"].v]

\* lines 42-46: the UID find_cdp_asset_id queries with, None when it returns at once
AssetUid(metadata) ==
    LET asset_uid == Get(metadata, "NI_CM_AssetNodeId")
    IN IF Falsy(asset_uid) THEN None ELSE asset_uid

\* lines 48-55, on the answer res of get_assets
find_cdp_asset_id(res, asset_uid) ==
    LET match == SelectSeq(res, LAMBDA i : Get(i.metadata, "UID") = asset_uid)
    IN IF match # <<>> THEN SomeId(match[1].id) ELSE NoId

\* lines 72-82: the TimeSeries object update_cdp_timeseries posts
TdTimeSeries(name, metadata, asset_name, asset_id) ==
    [name |-> name,
     is_string |-> FALSE,
     asset_id |-> asset_id,
     unit |-> IF HasText(metadata, "unit_string") THEN metadata["unit_string"] ELSE <<>>,
     description |-> Get(metadata, "NI_CM_Reason"),
     metadata |-> StringifyDates(IF asset_name # <<>>
                                 THEN Update(metadata, [assetName |-> asset_name])
                                 ELSE metadata)]

\* line 110 raises KeyError
SequenceRaises(metadata) ==
    "NI_CM_AssetName" \notin DOMAIN metadata \/ "name" \notin DOMAIN metadata

\* line 110
SequenceName(metadata) ==
    ReplaceSpaces(metadata["NI_CM_AssetName"] \o <<"-">> \o metadata["name"])

ChannelPath(channel) == <<channel.group, channel.channel>>

\* lines 110-117: the Sequence object create_sequence returns
Sequence(channel, metadata, asset_id) ==
    [name |-> SequenceName(metadata),
     asset_id |-> asset_id,
     columns |-> << [name |-> "time", value_type |-> "datetime64[ns]"],
                    [name |-> "value", value_type |-> "int64"] >>,
     description |-> ChannelPath(channel),
     metadata |-> StringifyDates(metadata)]

\* the entity post_sequences answers with: the catalog assigns the identifiers
Created(sequence, id) ==
    [id |-> id,
     name |-> sequence.name,
     columns |-> [c \in 1..Len(sequence.columns) |-> [id |-> 10 * id + c]]]

\* channel.as_dataframe(True): one row per sample, its time and its value
TimeAt(i) == [str |-> i - 1]
DataFrame(channel) == [i \in 1..Len(channel.data) |-> <<TimeAt(i), channel.data[i]>>]

\* rows built without dropping the first row of the frame
create_seq_rows_keep_first(channel, columns) ==
    LET rest == DataFrame(channel)
    IN [i \in 1..Len(rest) |->
          [index |-> i - 1,
           values |-> << [column |-> columns[1].id, value |-> rest[i][1]],
                         [column |-> columns[2].id, value |-> rest[i][2]] >>]]

\* rows that number the columns themselves instead of using the answer's ids
create_seq_rows_own_ids(channel, columns) ==
    LET rest == Tail(DataFrame(channel))
    IN [i \in 1..Len(rest) |->
          [index |-> i - 1,
           values |-> << [column |-> 1, value |-> rest[i][1]],
                         [column |-> 2, value |-> rest[i][2]] >>]]

\* lines 122-127: next(iterator) drops the first row, enumerate counts from 0
create_seq_rows(channel, columns) ==
    LET rest == Tail(DataFrame(channel))
    IN [i \in 1..Len(rest) |->
          [index |-> i - 1,
           values |-> << [column |-> columns[1].id, value |-> rest[i][1]],
                         [column |-> columns[2].id, value |-> rest[i][2]] >>]]

\* the remote calls of tdms2sequences.py, as they are logged
PostSequences(sequence, ok, res) ==
    [op |-> "post_sequences", sequence |-> sequence, ok |-> ok, res |-> res]
PostData(id, rows, ok) == [op |-> "post_data_to_sequence", id |-> id, rows |-> rows, ok |-> ok]

----------------------------------------------------------------------------
(* tdms2sequences.py: main and process_tdms_file *)

TdFile == td_files[td_fi]
TdChannel == TdFile.channels[td_ci]

\* get_assets(metadata={"UID": uid}): the catalog's candidates, not filtered exactly
AssetQuery(uid) ==
    << [id |-> 14, metadata |-> EmptyDict] >>
    \o IF uid = "u1" THEN << [id |-> 11, metadata |-> [UID |-> "u1"]],
                             [id |-> 12, metadata |-> [UID |-> "u1"]] >>
       ELSE <<>>

\* an exception nobody catches ends the process
TdRaise(exc) == td_pc' = "aborted" /\ td_exc' = exc

\* lines 175-183: the for-loop of main takes the next path
TdNextFile ==
    /\ td_pc = "loop"
    /\ td_fi < Len(td_files)
    /\ td_fi' = td_fi + 1
    /\ td_ci' = 0
    /\ LET file == td_files[td_fi + 1]
       IN CASE file.kind = "unopenable" ->
                 TdRaise("OSError") /\ UNCHANGED td_outcome
            [] file.kind = "unparsable" ->
                 /\ td_outcome' = Append(td_outcome, "Failed")
                 /\ UNCHANGED <<td_pc, td_exc>>
            [] OTHER ->
                 /\ td_pc' = "channels"
                 /\ UNCHANGED <<td_outcome, td_exc>>
    /\ UNCHANGED <<td_files, td_only_static, td_run, td_local, td_calls, td_past,
                   td_catalog, trVars, qVars>>

\* line 135 exhausted: process_tdms_file returns and the with-block closes
TdFileDone ==
    /\ td_pc = "channels"
    /\ td_ci = Len(TdFile.channels)
    /\ td_outcome' = Append(td_outcome, "Completed")
    /\ td_pc' = "loop"
    /\ UNCHANGED <<td_files, td_only_static, td_run, td_fi, td_ci, td_local, td_calls,
                   td_past, td_catalog, td_exc, trVars, qVars>>

\* lines 135-152 and 87-99: the loop takes the next channel and classifies it.
\* channel.property("Value") of a channel without that property is the
\* library's to decide: it returns None or raises KeyError.
TdNextChannel ==
    /\ td_pc = "channels"
    /\ td_ci < Len(TdFile.channels)
    /\ td_ci' = td_ci + 1
    /\ LET channel == TdFile.channels[td_ci + 1]
           metadata == Metadata(TdFile, channel)
       IN IF NoData(channel)
          THEN \/ /\ "Value" \notin DOMAIN channel.props
                  /\ TdRaise("KeyError")
                  /\ UNCHANGED td_local
               \/ IF IsStatic(channel, metadata) /\ StaticPoint(metadata).ok
                  THEN /\ td_local' = [point |-> StaticPoint(metadata),
                                       metadata |-> metadata]
                       /\ td_pc' = "st_find"
                       /\ UNCHANGED td_exc
                  ELSE UNCHANGED <<td_local, td_pc, td_exc>>
          ELSE IF td_only_static
          THEN UNCHANGED <<td_local, td_pc, td_exc>>
          ELSE IF SequenceRaises(metadata)
          THEN TdRaise("KeyError") /\ UNCHANGED td_local
          ELSE /\ td_local' = [metadata |-> metadata]
               /\ td_pc' = "wf_asset"
               /\ UNCHANGED td_exc
    /\ UNCHANGED <<td_files, td_only_static, td_run, td_fi, td_calls, td_past,
                   td_catalog, td_outcome, trVars, qVars>>

\* line 101: find_cdp_timeseries(client, name)
ST_FindTimeseries ==
    /\ td_pc = "st_find"
    /\ LET name == td_local.point.name
       IN \E ok \in BOOLEAN :
            /\ td_calls' = Append(td_calls, GetTimeSeries(name, ok))
            /\ IF ok
               THEN /\ td_pc' =
                         IF find_cdp_timeseries(PrefixQuery(td_catalog.time_series, name),
                                                name).ok
                         THEN "st_post" ELSE "st_asset"
                    /\ UNCHANGED td_exc
               ELSE TdRaise("remote")
    /\ UNCHANGED <<td_files, td_only_static, td_run, td_fi, td_ci, td_local, td_past,
                   td_catalog, td_outcome, trVars, qVars>>

\* find_cdp_asset_id, lines 40-55: no query without a UID (lines 102 and 111)
TdFindAsset ==
    /\ td_pc \in {"st_asset", "wf_asset"}
    /\ LET asset_uid == AssetUid(td_local.metadata)
           next == IF td_pc = "st_asset" THEN "st_update" ELSE "wf_create"
       IN IF asset_uid = None
          THEN /\ td_local' = Update(td_local, [asset_id |-> NoId])
               /\ td_pc' = next
               /\ UNCHANGED <<td_calls, td_exc>>
          ELSE \E ok \in BOOLEAN :
                 /\ td_calls' = Append(td_calls, GetAssets(asset_uid, ok))
                 /\ IF ok
                    THEN /\ td_local' =
                              Update(td_local,
                                     [asset_id |->
                                        find_cdp_asset_id(AssetQuery(asset_uid), asset_uid)])
                         /\ td_pc' = next
                         /\ UNCHANGED td_exc
                    ELSE TdRaise("remote") /\ UNCHANGED td_local
    /\ UNCHANGED <<td_files, td_only_static, td_run, td_fi, td_ci, td_past,
                   td_catalog, td_outcome, trVars, qVars>>

\* line 103: update_cdp_timeseries posts the new time series
ST_UpdateTimeseries ==
    /\ td_pc = "st_update"
    /\ LET series == TdTimeSeries(td_local.point.name, td_local.metadata,
                                  td_local.metadata["NI_CM_AssetName"], td_local.asset_id)
       IN \E ok \in BOOLEAN :
            /\ td_calls' = Append(td_calls, PostTimeSeries(series, ok))
            /\ IF ok
               THEN /\ td_catalog' =
                         [td_catalog EXCEPT !.time_series = Append(@, TsRecord(series.name))]
                    /\ td_pc' = "st_post"
                    /\ UNCHANGED td_exc
               ELSE TdRaise("remote") /\ UNCHANGED td_catalog
    /\ UNCHANGED <<td_files, td_only_static, td_run, td_fi, td_ci, td_local, td_past,
                   td_outcome, trVars, qVars>>

\* line 105: one datapoint is posted, and process_static_data returns
ST_PostDatapoint ==
    /\ td_pc = "st_post"
    /\ LET point == td_local.point
       IN \E ok \in BOOLEAN :
            /\ td_calls' = Append(td_calls,
                                  PostDatapoints(point.name,
                                                 <<Datapoint(<<point.timestamp, point.value>>)>>,
                                                 ok))
            /\ IF ok
               THEN td_pc' = "channels" /\ UNCHANGED td_exc
               ELSE TdRaise("remote")
    /\ td_local' = EmptyDict
    /\ UNCHANGED <<td_files, td_only_static, td_run, td_fi, td_ci, td_past,
                   td_catalog, td_outcome, trVars, qVars>>

\* lines 151-158: create_sequence builds the Sequence, post_sequences sends it;
\* the call raises, answers with nothing, or answers with the created entity
WV_CreateSequence ==
    /\ td_pc = "wf_create"
    /\ LET sequence == Sequence(TdChannel, td_local.metadata, td_local.asset_id)
           id == td_catalog.sequences + 1
       IN \/ /\ td_calls' = Append(td_calls, PostSequences(sequence, FALSE, NoId))
             /\ TdRaise("remote")
             /\ UNCHANGED <<td_local, td_catalog>>
          \/ /\ td_calls' = Append(td_calls, PostSequences(sequence, TRUE, NoId))
             /\ td_pc' = "channels"
             /\ td_local' = EmptyDict
             /\ UNCHANGED <<td_catalog, td_exc>>
          \/ /\ td_calls' = Append(td_calls, PostSequences(sequence, TRUE, SomeId(id)))
             /\ td_catalog' = [td_catalog EXCEPT !.sequences = id]
             /\ td_local' = Update(td_local, [res |-> Created(sequence, id)])
             /\ td_pc' = "wf_rows"
             /\ UNCHANGED td_exc
    /\ UNCHANGED <<td_files, td_only_static, td_run, td_fi, td_ci, td_past,
                   td_outcome, trVars, qVars>>

\* lines 155-157: the rows are built against the answer and sent
WV_PostRows ==
    /\ td_pc = "wf_rows"
    /\ LET rows == create_seq_rows(TdChannel, td_local.res.columns)
       IN \E ok \in BOOLEAN :
            /\ td_calls' = Append(td_calls, PostData(td_local.res.id, rows, ok))
            /\ IF ok
               THEN td_pc' = "channels" /\ UNCHANGED td_exc
               ELSE TdRaise("remote")
    /\ td_local' = EmptyDict
    /\ UNCHANGED <<td_files, td_only_static, td_run, td_fi, td_ci, td_past,
                   td_catalog, td_outcome, trVars, qVars>>

\* line 175 exhausted: main returns
TdFinish ==
    /\ td_pc = "loop"
    /\ td_fi = Len(td_files)
    /\ td_pc' = "done"
    /\ UNCHANGED <<td_files, td_only_static, td_run, td_fi, td_ci, td_local, td_calls,
                   td_past, td_catalog, td_outcome, td_exc, trVars, qVars>>

\* the program is started again on the same paths; the catalog keeps what it holds
TdRerun ==
    /\ td_pc = "done"
    /\ td_run < MaxRuns
    /\ td_run' = td_run + 1
    /\ td_past' = Append(td_past, td_calls)
    /\ td_calls' = <<>>
    /\ td_outcome' = <<>>
    /\ td_fi' = 0
    /\ td_ci' = 0
    /\ td_pc' = "loop"
    /\ UNCHANGED <<td_files, td_only_static, td_local, td_catalog, td_exc, trVars, qVars>>

\* the catalog before the first run: a time series whose name only starts alike
InitialTdCatalog ==
    [time_series |-> <<TsRecord(ReplaceSpaces(PumpTen))>>, sequences |-> 0]

InitTdms ==
    /\ td_files \in PathLists
    /\ td_only_static \in BOOLEAN
    /\ td_run = 1
    /\ td_fi = 0
    /\ td_ci = 0
    /\ td_pc = "loop"
    /\ td_local = EmptyDict
    /\ td_calls = <<>>
    /\ td_past = <<>>
    /\ td_catalog = InitialTdCatalog
    /\ td_outcome = <<>>
    /\ td_exc = "none"
    /\ TrIdle
    /\ QIdle

NextTdms ==
    \/ TdNextFile \/ TdFileDone \/ TdNextChannel
    \/ ST_FindTimeseries \/ TdFindAsset \/ ST_UpdateTimeseries \/ ST_PostDatapoint
    \/ WV_CreateSequence \/ WV_PostRows
    \/ TdFinish \/ TdRerun

SpecTdms == InitTdms /\ [][NextTdms]_vars

----------------------------------------------------------------------------
(* Properties of the TDMS pipeline *)

\* the channels of the files that reach the datapoint submission, in order
RECURSIVE StaticPoints(_, _, _)
StaticPoints(files, fi, ci) ==
    IF fi > Len(files) THEN <<>>
    ELSE IF files[fi].kind # "tdms" \/ ci > Len(files[fi].channels)
    THEN StaticPoints(files, fi + 1, 1)
    ELSE LET channel == files[fi].channels[ci]
             metadata == Metadata(files[fi], channel)
             here == IF NoData(channel) /\ IsStatic(channel, metadata)
                        /\ StaticPoint(metadata).ok
                     THEN <<StaticPoint(metadata)>> ELSE <<>>
         IN here \o StaticPoints(files, fi, ci + 1)

\* the calls of the finished runs and of the current one, oldest first
RECURSIVE Flatten(_)
Flatten(runs) == IF runs = <<>> THEN <<>> ELSE Head(runs) \o Flatten(Tail(runs))
History == Flatten(td_past) \o td_calls

Creations(calls, name) ==
    Len(SelectSeq(calls, LAMBDA c : c.op = "post_time_series" /\ c.series.name = name))
DatapointNames(calls) ==
    LET posts == SelectSeq(calls, LAMBDA c : c.op = "post_datapoints")
    IN [i \in 1..Len(posts) |-> posts[i].name]
InCatalogBefore(name) ==
    \E i \in 1..Len(InitialTdCatalog.time_series) :
        InitialTdCatalog.time_series[i].name = name
ExpectedNames == [i \in 1..Len(StaticPoints(td_files, 1, 1)) |->
                    StaticPoints(td_files, 1, 1)[i].name]

\* C4: however many times main is run on the same files against a catalog that
\* keeps what was created, each time-series name is created at most once in
\* total, never when the catalog held it before, and once all runs so far have
\* finished exactly once when it did not; every finished run submits exactly
\* one datapoint per static channel, so one per run for a one-channel file
C4_RerunCreatesOnce ==
    /\ \A i \in 1..Len(ExpectedNames) :
         LET name == ExpectedNames[i]
         IN /\ Creations(History, name) <= 1
            /\ InCatalogBefore(name) => Creations(History, name) = 0
            /\ (td_pc = "done" /\ ~InCatalogBefore(name)) => Creations(History, name) = 1
    /\ td_pc = "done" =>
         /\ DatapointNames(td_calls) = ExpectedNames
         /\ \A r \in 1..Len(td_past) : DatapointNames(td_past[r]) = ExpectedNames

\* two runs over a file whose only channel is a static value have finished: one
\* creation in the first run, one datapoint in each
C4_Witness ==
    /\ td_pc = "done" /\ td_run = 2
    /\ td_files = <<Tdms(EmptyDict, <<StaticOne>>)>>
    /\ Creations(td_past[1], ExpectedNames[1]) = 1
    /\ Creations(td_calls, ExpectedNames[1]) = 0
    /\ Len(DatapointNames(td_past[1])) = 1 /\ Len(DatapointNames(td_calls)) = 1

\* C7: a remote call that raises while a channel is reconciled or submitted
\* does not end the run: the later channels and files are still handled
C7_RemoteFailureIsolated == ~(td_pc = "aborted" /\ td_exc = "remote")

\* C8: a waveform channel without the asset-name or name property is skipped
\* and does not end the processing of its file
C8_MissingPropertySkipped ==
    ~(td_pc = "aborted" /\ td_exc = "KeyError" /\ ~NoData(TdChannel))

Last(s) == s[Len(s)]

\* every channel of the parsed files with its metadata, in processing order
RECURSIVE Channels(_, _, _)
Channels(files, fi, ci) ==
    IF fi > Len(files) THEN <<>>
    ELSE IF files[fi].kind # "tdms" \/ ci > Len(files[fi].channels)
    THEN Channels(files, fi + 1, 1)
    ELSE << [channel |-> files[fi].channels[ci],
             metadata |-> Metadata(files[fi], files[fi].channels[ci])] >>
         \o Channels(files, fi, ci + 1)

\* the channels that take the waveform path
Waveforms ==
    SelectSeq(Channels(td_files, 1, 1),
              LAMBDA c : \E i \in 1..Len(c.channel.data) : c.channel.data[i] # 0)

Calls(calls, op) == SelectSeq(calls, LAMBDA c : c.op = op)

\* the rows of a submission are numbered 0, 1, ... and hold one value for
\* each of the two columns
WellFormedRows(rows, columns) ==
    \A i \in 1..Len(rows) :
        /\ rows[i].index = i - 1
        /\ Len(rows[i].values) = 2
        /\ rows[i].values[1].column = columns[1].id
        /\ rows[i].values[2].column = columns[2].id
        /\ columns[1].id # columns[2].id

\* C12: the sequence sent for a waveform channel has the two columns time and
\* value; the rows sent for a channel of n samples are n-1 rows numbered
\* 0..n-2 with one value per column; a run that finishes with only-static off
\* has made one creation call per waveform channel and one row submission per
\* created sequence
C12_WaveformRows ==
    /\ [][td_pc = "wf_create" =>
            LET c == Last(td_calls')
            IN /\ c.op = "post_sequences"
               /\ Len(c.sequence.columns) = 2
               /\ c.sequence.columns[1].name = "time"
               /\ c.sequence.columns[2].name = "value"]_vars
    /\ [][td_pc = "wf_rows" =>
            LET c == Last(td_calls')
            IN /\ c.op = "post_data_to_sequence"
               /\ Len(c.rows) = Len(TdChannel.data) - 1
               /\ WellFormedRows(c.rows, td_local.res.columns)]_vars
    /\ [](td_pc = "done" /\ ~td_only_static =>
            /\ Len(Calls(td_calls, "post_sequences")) = Len(Waveforms)
            /\ Len(Calls(td_calls, "post_data_to_sequence")) =
                 Len(SelectSeq(td_calls, LAMBDA c : c.op = "post_sequences" /\ c.res.ok)))

\* the rows of a channel of three samples have been sent: two rows
C12_Witness ==
    /\ td_pc = "channels" /\ td_calls # <<>>
    /\ Last(td_calls).op = "post_data_to_sequence" /\ Last(td_calls).ok
    /\ Len(TdChannel.data) = 3 /\ Len(Last(td_calls).rows) = 2

\* the channel the loop of process_tdms_file takes next, and its metadata
NextChannel == TdFile.channels[td_ci + 1]
NextMetadata == Metadata(TdFile, NextChannel)
AtNextChannel == td_pc = "channels" /\ td_ci < Len(TdFile.channels)

\* a channel without sample data that has a Value and a DateTime property
HasStaticProperties(channel, metadata) ==
    /\ NoData(channel)
    /\ "Value" \in DOMAIN channel.props
    /\ "DateTime" \in DOMAIN metadata

\* the static channel goes on to its one datapoint, of the given time and value
GoesToDatapoint ==
    /\ td_pc' = "st_find"
    /\ td_local'.point.timestamp = Millis(NextMetadata["DateTime"])
    /\ td_local'.point.value = NextMetadata["Value"].v

\* the datapoint call of a static channel carries the one point of the channel
OnePointPosted ==
    LET c == Last(td_calls')
    IN /\ c.op = "post_datapoints"
       /\ c.name = td_local.point.name
       /\ c.objs = <<Datapoint(<<td_local.point.timestamp, td_local.point.value>>)>>

\* C13: a channel without data that has a Value and a DateTime property (and an
\* asset name to file it under) gets exactly one datapoint of
\* int(DateTime * 1000) and float(Value) when Value parses, and no remote call
\* at all when it does not
C13_StaticDatapoint ==
    /\ [][(AtNextChannel /\ HasStaticProperties(NextChannel, NextMetadata)
             /\ ~NoText(NextMetadata, "NI_CM_AssetName"))
          => IF NextMetadata["Value"].num
             THEN GoesToDatapoint
             ELSE td_pc' = "channels" /\ td_calls' = td_calls]_vars
    /\ [][td_pc = "st_post" => OnePointPosted]_vars

\* C14: rows are sent only right after a creation that answered with an
\* entity, under the id and the column ids of that answer; after a creation
\* that answered with nothing the loop is back at its head with the same
\* channel behind it: no rows, no second attempt
C14_RowsAfterCreation ==
    /\ [](\A i \in 1..Len(td_calls) :
            td_calls[i].op = "post_data_to_sequence" =>
              /\ i > 1
              /\ td_calls[i - 1].op = "post_sequences"
              /\ td_calls[i - 1].ok /\ td_calls[i - 1].res.ok
              /\ td_calls[i].id = td_calls[i - 1].res.id
              /\ WellFormedRows(td_calls[i].rows,
                                Created(td_calls[i - 1].sequence,
                                        td_calls[i - 1].res.id).columns))
    /\ [][(td_pc = "wf_create" /\ Last(td_calls').ok /\ ~Last(td_calls').res.ok)
          => (td_pc' = "channels" /\ td_ci' = td_ci)]_vars

\* a creation answered with nothing, and the rows of a later channel were sent
C14_Witness ==
    /\ td_pc = "channels" /\ Len(td_calls) > 1
    /\ Last(td_calls).op = "post_data_to_sequence" /\ Last(td_calls).rows # <<>>
    /\ \E i \in 1..Len(td_calls) :
         td_calls[i].op = "post_sequences" /\ td_calls[i].ok /\ ~td_calls[i].res.ok

\* a channel without sample data that lacks a Value or a DateTime property
IsEmpty(file, channel) ==
    /\ NoData(channel)
    /\ \/ "Value" \notin DOMAIN channel.props
       \/ "DateTime" \notin (DOMAIN file.properties \cup DOMAIN channel.props)

\* C15: taking an Empty channel issues no remote call
C15_EmptyNoRemoteCall ==
    [][(AtNextChannel /\ IsEmpty(TdFile, NextChannel))
       => (td_calls' = td_calls /\ td_pc' \in {"channels", "aborted"})]_vars

\* the first channel of the file was Empty and the loop went on without a call
C15_Witness ==
    /\ td_pc = "channels" /\ td_ci = 1 /\ td_calls = <<>>
    /\ IsEmpty(TdFile, TdChannel)
    /\ "Value" \in DOMAIN TdChannel.props

\* C16: a finished run with only-static off has made one creation call per
\* waveform channel, in every run over the same files, and the waveform path
\* asks the catalog for nothing but the asset before it creates
C16_SequencesNeverDeduplicated ==
    /\ [](td_pc = "done" /\ ~td_only_static =>
            /\ Len(Calls(td_calls, "post_sequences")) = Len(Waveforms)
            /\ \A r \in 1..Len(td_past) :
                 Len(Calls(td_past[r], "post_sequences")) = Len(Waveforms))
    /\ [][(td_pc = "wf_asset" \/ td_pc = "wf_create") =>
            (td_calls' = td_calls
             \/ Last(td_calls').op \in {"get_assets", "post_sequences"})]_vars

\* two runs over a file with a waveform channel: the same sequence created twice
C16_Witness ==
    /\ td_pc = "done" /\ td_run = 2 /\ Len(Waveforms) = 1
    /\ Len(Calls(td_past[1], "post_sequences")) = 1
    /\ Len(Calls(td_calls, "post_sequences")) = 1
    /\ Calls(td_calls, "post_sequences")[1].sequence
         = Calls(td_past[1], "post_sequences")[1].sequence
    /\ Calls(td_past[1], "post_sequences")[1].res.ok

\* C17: the datapoint of a static channel goes to the name made of the asset
\* display name alone, spaces replaced; and no time series is created under a
\* name after a datapoint was sent to it, nor twice, in one run
C17_NameFromAssetOnly ==
    /\ [][td_pc = "st_post" =>
            Last(td_calls').name
              = ReplaceSpaces(Metadata(TdFile, TdChannel)["NI_CM_AssetName"])]_vars
    /\ [](\A i \in 1..Len(td_calls) :
            td_calls[i].op = "post_time_series" =>
              \A j \in 1..(i - 1) :
                 /\ td_calls[j].op = "post_datapoints"
                      => td_calls[j].name # td_calls[i].series.name
                 /\ td_calls[j].op = "post_time_series"
                      => td_calls[j].series.name # td_calls[i].series.name)

\* a run over two static channels of one asset, of different channel and unit:
\* one creation, two datapoints under the one name
C17_Witness ==
    /\ td_pc = "done" /\ td_run = 1
    /\ td_files = <<Tdms(EmptyDict, <<StaticOne, StaticTwo>>)>>
    /\ Len(Calls(td_calls, "post_time_series")) = 1
    /\ DatapointNames(td_calls) = <<ReplaceSpaces(PumpOne), ReplaceSpaces(PumpOne)>>

\* the name under which a channel is sent as a static value, read from the
\* channel's properties alone; <<>> when it is not sent
StaticNameOf(c) ==
    IF /\ \A i \in 1..Len(c.channel.data) : c.channel.data[i] = 0
       /\ "Value" \in DOMAIN c.channel.props
       /\ c.channel.props["Value"].truthy /\ c.channel.props["Value"].num
       /\ "DateTime" \in DOMAIN c.metadata
       /\ "NI_CM_AssetName" \in DOMAIN c.metadata
       /\ c.metadata["NI_CM_AssetName"] # <<>>
    THEN <<ReplaceSpaces(c.metadata["NI_CM_AssetName"])>>
    ELSE <<>>

RECURSIVE StaticNames(_)
StaticNames(cs) ==
    IF cs = <<>> THEN <<>> ELSE StaticNameOf(Head(cs)) \o StaticNames(Tail(cs))

\* the calls of the static path for these names in turn, as operation and
\* name, when the catalog holds the names of known before
RECURSIVE StaticTrace(_, _)
StaticTrace(names, known) ==
    IF names = <<>> THEN <<>>
    ELSE LET name == Head(names)
         IN << <<"get_time_series", name>> >>
            \o (IF name \in known THEN <<>> ELSE << <<"post_time_series", name>> >>)
            \o << <<"post_datapoints", name>> >>
            \o StaticTrace(Tail(names), known \cup {name})

\* the calls of a run that name a time series, as operation and name
NamedCalls(calls) ==
    LET named == SelectSeq(calls, LAMBDA c : c.op \in {"get_time_series",
                                                      "post_time_series", "post_datapoints"})
    IN [i \in 1..Len(named) |->
          <<named[i].op,
            CASE named[i].op = "get_time_series" -> named[i].prefix
              [] named[i].op = "post_time_series" -> named[i].series.name
              [] OTHER -> named[i].name>>]

KnownBefore(run) ==
    {InitialTdCatalog.time_series[i].name : i \in 1..Len(InitialTdCatalog.time_series)}
    \cup (IF run > 1
          THEN {StaticNames(Channels(td_files, 1, 1))[i] :
                  i \in 1..Len(StaticNames(Channels(td_files, 1, 1)))}
          ELSE {})

\* C18: with only-static set no sequence is created and no rows are sent; and a
\* finished run has made the time-series lookups, creations and datapoint
\* submissions that its static channels call for, the same with the option as
\* without it
C18_OnlyStaticFrame ==
    /\ td_only_static =>
         \A i \in 1..Len(td_calls) :
            td_calls[i].op \notin {"post_sequences", "post_data_to_sequence"}
    /\ td_pc = "done" =>
         NamedCalls(td_calls)
           = StaticTrace(StaticNames(Channels(td_files, 1, 1)), KnownBefore(td_run))
    /\ (td_pc = "done" /\ td_only_static) =>
         \A i \in 1..Len(td_calls) :
            td_calls[i].op = "get_assets" => td_calls[i + 1].op = "post_time_series"

\* a finished run with only-static set over a waveform and a static channel
C18_Witness ==
    /\ td_pc = "done" /\ td_only_static
    /\ td_files = <<Tdms(EmptyDict, <<Waveform(2), StaticOne>>)>>
    /\ Len(Calls(td_calls, "post_datapoints")) = 1

====
